---- MODULE Spec2Model ----
(***************************************************************************)
(* Conference Deadline Tracker (main.py): the request handler that loads   *)
(* the conference list, enriches every record with days-remaining values   *)
(* and returns the records sorted by their nearest deadline.               *)
(*                                                                         *)
(* Optional values (Python None) are sequences of length 0 or 1.           *)
(* A date string "YYYY-MM-DD" is the record of its three number fields;    *)
(* the empty string has kind "empty".  Moments are counted in ticks,       *)
(* TicksPerDay ticks to a day, tick 0 of a day being midnight.             *)
(***************************************************************************)
EXTENDS Integers, Sequences, FiniteSets

\* ---------------------------------------------------------------- bounds
MaxConfs == 2       \* records in the configuration file
MaxRequests == 2    \* requests served in one behaviour
MaxTicks == 1       \* times the clock advances in one behaviour
TicksPerDay == 2    \* resolution of the clock

\* ------------------------------------------------------ optional values
None == <<>>
Some(x) == <<x>>
IsNone(o) == o = <<>>
Val(o) == o[1]

\* ---------------------------------------------------------- date strings
DateStr(y, m, d) == [kind |-> "text", y |-> y, m |-> m, d |-> d]
EmptyStr == [kind |-> "empty", y |-> 0, m |-> 0, d |-> 0]

\* Python truthiness of an optional string: None and "" are falsy.
Falsy(date_str) == IsNone(date_str) \/ Val(date_str).kind = "empty"

IsLeap(y) == (y % 4 = 0) /\ ((y % 100 # 0) \/ (y % 400 = 0))

DaysInMonth(y, m) ==
    IF m = 2 THEN (IF IsLeap(y) THEN 29 ELSE 28)
    ELSE IF m \in {4, 6, 9, 11} THEN 30 ELSE 31

DaysBeforeYear(y) ==
    (y - 1) * 365 + ((y - 1) \div 4) - ((y - 1) \div 100) + ((y - 1) \div 400)

RECURSIVE DaysBeforeMonth(_, _)
DaysBeforeMonth(y, m) ==
    IF m <= 1 THEN 0 ELSE DaysBeforeMonth(y, m - 1) + DaysInMonth(y, m - 1)

\* Proleptic Gregorian ordinal of a calendar day (day 1 is 0001-01-01).
Ordinal(y, m, d) == DaysBeforeYear(y) + DaysBeforeMonth(y, m) + d

\* strptime(s, "%Y-%m-%d") accepts s only when its fields name a real day.
IsValidDate_lenient(s) == TRUE
IsValidDate(s) ==
    /\ s.kind = "text"
    /\ s.y \in 1..9999
    /\ s.m \in 1..12
    /\ s.d \in 1..DaysInMonth(s.y, s.m)

\* parse_date: None for a falsy string, the moment of midnight of the day
\* for a valid one; [ok |-> FALSE] is the ValueError strptime raises.
parse_date(date_str) ==
    IF Falsy(date_str) THEN [ok |-> TRUE, value |-> None]
    ELSE IF IsValidDate(Val(date_str))
         THEN [ok |-> TRUE,
               value |-> Some(Ordinal(Val(date_str).y, Val(date_str).m,
                                      Val(date_str).d) * TicksPerDay)]
         ELSE [ok |-> FALSE, value |-> None]

\* timedelta.days of (deadline - today): the floor of the difference in days.
TimedeltaDays_calendar(deadline, clock) ==
    (deadline \div TicksPerDay) - (clock \div TicksPerDay)
TimedeltaDays(deadline, clock) == (deadline - clock) \div TicksPerDay

\* days_until, evaluated when the clock reads `clock`.
days_until(date_str, clock) ==
    IF Falsy(date_str) THEN [ok |-> TRUE, value |-> None]
    ELSE IF ~parse_date(date_str).ok THEN [ok |-> FALSE, value |-> None]
    ELSE [ok |-> TRUE,
          value |-> Some(TimedeltaDays(Val(parse_date(date_str).value), clock))]

\* ------------------------------------------------------------- sort keys
PastOffset == 10000
Abs(n) == IF n < 0 THEN -n ELSE n

Finite(n) == [inf |-> FALSE, val |-> n]
Infinity == [inf |-> TRUE, val |-> 0]
KeyLess(a, b) == ~a.inf /\ (b.inf \/ a.val < b.val)

\* sort_key of an enriched record.
sort_key_zero(conf) ==
    IF IsNone(conf.next_deadline) THEN Finite(0)
    ELSE IF Val(conf.next_deadline).days < 0
         THEN Finite(PastOffset + Abs(Val(conf.next_deadline).days))
         ELSE Finite(Val(conf.next_deadline).days)
sort_key(conf) ==
    IF IsNone(conf.next_deadline) THEN Infinity
    ELSE IF Val(conf.next_deadline).days < 0
         THEN Finite(PastOffset + Abs(Val(conf.next_deadline).days))
         ELSE Finite(Val(conf.next_deadline).days)

\* list.sort(key=...) is stable.  `s` is a sequence of [key, item] pairs;
\* InsertByKey puts x behind every element whose key is not greater.
RECURSIVE InsertByKey_unstable(_, _)
InsertByKey_unstable(x, s) ==
    IF s = <<>> THEN <<x>>
    ELSE IF ~KeyLess(s[1].key, x.key) THEN <<x>> \o s
    ELSE <<s[1]>> \o InsertByKey_unstable(x, Tail(s))

RECURSIVE InsertByKey(_, _)
InsertByKey(x, s) ==
    IF s = <<>> THEN <<x>>
    ELSE IF KeyLess(x.key, s[1].key) THEN <<x>> \o s
    ELSE <<s[1]>> \o InsertByKey(x, Tail(s))

RECURSIVE SortKeyed(_)
SortKeyed(s) ==
    IF s = <<>> THEN <<>>
    ELSE InsertByKey(s[Len(s)], SortKeyed(SubSeq(s, 1, Len(s) - 1)))

Items(s) == [k \in 1..Len(s) |-> s[k].item]

\* all_deadlines.sort(key=lambda x: x["days"])
SortDeadlines(entries) ==
    Items(SortKeyed([k \in 1..Len(entries) |->
                       [key |-> Finite(entries[k].days), item |-> entries[k]]]))

\* --------------------------------------------------- configuration file
Yesterday == DateStr(2026, 11, 1)
Tomorrow == DateStr(2026, 11, 3)
NextDay == DateStr(2026, 11, 4)
FarFuture == DateStr(2099, 1, 1)
LongPast == DateStr(2000, 1, 1)
NoSuchDay == DateStr(2026, 2, 30)
NoSuchMonth == DateStr(2026, 13, 1)

D(type, date) == [type |-> type, date |-> date]

\* Conference records of the YAML file: the keys present, the deadlines
\* mapping in insertion order, the conference date.
Entry(keys, deadlines, conference_date) ==
    [keys |-> keys, deadlines |-> deadlines, conference_date |-> conference_date]

AllKeys == {"name", "deadlines", "conference_date"}

ConfBodies ==
    { Entry({"name", "deadlines"}, <<D("paper", Some(FarFuture))>>, None),
      Entry({"name", "deadlines"}, <<D("paper", Some(LongPast))>>, None),
      Entry({"name"}, <<>>, None),
      Entry({"name", "deadlines"},
            <<D("abstract", Some(EmptyStr)), D("paper", None)>>, None),
      Entry(AllKeys, <<D("abstract", Some(Yesterday)), D("paper", Some(NextDay))>>,
            Some(NextDay)),
      Entry(AllKeys, <<D("abstract", Some(NextDay)), D("paper", None)>>,
            Some(EmptyStr)),
      Entry({"name", "deadlines"},
            <<D("abstract", Some(NextDay)), D("paper", Some(Tomorrow))>>, None),
      Entry({"name", "deadlines"}, <<D("paper", Some(NoSuchDay))>>, None),
      Entry(AllKeys, <<D("abstract", Some(Yesterday))>>, Some(NoSuchMonth)) }

Configs == UNION { [1..n -> ConfBodies] : n \in 0..MaxConfs }

\* The clock starts at midnight of 2026-11-02.
StartDay == Ordinal(2026, 11, 2)
StartMoments == { StartDay * TicksPerDay }

\* ------------------------------------------------------------------ state
VARIABLES
    config,         \* the conferences list of data/conferences.yaml
    clock,          \* what datetime.now() returns
    ticks,          \* times the clock has advanced
    pc,             \* position of the request handler
    heap,           \* the dict objects alive in the request, by reference
    conferences,    \* load_conferences' result: references into heap
    enriched,       \* enrich_conference_data's list: references into heap
    today,          \* enrich_conference_data's local `today`
    i,              \* index of `conf` in the loop over conferences
    conf_copy,      \* reference of the copy being filled in
    all_deadlines,  \* the list being built for conf_copy
    j,              \* index of the deadline in the loop over items()
    responses,      \* what the finished requests returned
    lastCall,       \* the latest days_until call that returned a number
    firstClock      \* the clock when the first request began

vars == << config, clock, ticks, pc, heap, conferences, enriched, today, i,
           conf_copy, all_deadlines, j, responses, lastCall, firstClock >>

locals == << heap, conferences, enriched, today, i, conf_copy, all_deadlines, j >>

\* The dict yaml.safe_load builds for the k-th record (named by its position).
\* The derived keys are absent: `keys` lists the keys the dict has.
YamlObject(cfg, k) ==
    [name |-> k,
     keys |-> cfg[k].keys,
     deadlines |-> cfg[k].deadlines,
     conference_date |-> cfg[k].conference_date,
     all_deadlines |-> <<>>,
     next_deadline |-> None,
     conference_days |-> None]

\* conf.get("deadlines", {}) and conf.get("conference_date")
GetDeadlines(conf) == IF "deadlines" \in conf.keys THEN conf.deadlines ELSE <<>>
GetConferenceDate(conf) ==
    IF "conference_date" \in conf.keys THEN conf.conference_date ELSE None

\* conf.copy(): a new dict with the same items; `ref` is its reference.
DictCopy_alias(h, ref) == [heap |-> h, ref |-> ref]
DictCopy(h, ref) == [heap |-> Append(h, h[ref]), ref |-> Len(h) + 1]

\* `enriched = []`: every call starts from a fresh list.
NewList_shared(old) == old
NewList(old) == <<>>

\* The append of lines 75-80: only a deadline that has a days value is listed.
AppendDeadline_truthy(entries, type, date_str, days) ==
    IF ~IsNone(days) /\ Val(days) # 0
    THEN Append(entries, [type |-> type, date |-> Val(date_str), days |-> Val(days)])
    ELSE entries
AppendDeadline(entries, type, date_str, days) ==
    IF ~IsNone(days)
    THEN Append(entries, [type |-> type, date |-> Val(date_str), days |-> Val(days)])
    ELSE entries

\* all_deadlines[0] if all_deadlines else None
FirstOrNone(entries) == IF entries = <<>> THEN None ELSE Some(entries[1])

\* enriched.sort(key=sort_key), on references.
SortEnriched(h, refs) ==
    Items(SortKeyed([k \in 1..Len(refs) |->
                       [key |-> sort_key(h[refs[k]]), item |-> refs[k]]]))

\* The body of a response: the records the references stand for.
Deref(h, refs) == [k \in 1..Len(refs) |-> h[refs[k]]]

OkResponse(body) == [status |-> "ok", body |-> body]
ErrorResponse == [status |-> "error", body |-> <<>>]

Init ==
    /\ config \in Configs
    /\ clock \in StartMoments
    /\ ticks = 0
    /\ pc = "idle"
    /\ heap = <<>>
    /\ conferences = <<>>
    /\ enriched = <<>>
    /\ today = None
    /\ i = 0
    /\ conf_copy = 0
    /\ all_deadlines = <<>>
    /\ j = 0
    /\ responses = <<>>
    /\ lastCall = None
    /\ firstClock = None

\* The clock advances, whatever the handler is doing.
Tick ==
    /\ ticks < MaxTicks
    /\ clock' = clock + 1
    /\ ticks' = ticks + 1
    /\ UNCHANGED << config, pc, locals, responses, lastCall, firstClock >>

\* A request arrives: load_conferences() reads the file into new dicts.
Load ==
    /\ pc = "idle"
    /\ Len(responses) < MaxRequests
    /\ heap' = [k \in 1..Len(config) |-> YamlObject(config, k)]
    /\ conferences' = [k \in 1..Len(config) |-> k]
    /\ firstClock' = IF IsNone(firstClock) THEN Some(clock) ELSE firstClock
    /\ pc' = "enrich"
    /\ UNCHANGED << config, clock, ticks, enriched, today, i, conf_copy,
                    all_deadlines, j, responses, lastCall >>

\* enrich_conference_data, lines 65-66.
EnrichStart ==
    /\ pc = "enrich"
    /\ enriched' = NewList(enriched)
    /\ today' = Some(clock)
    /\ i' = 1
    /\ pc' = "for_conf"
    /\ UNCHANGED << config, clock, ticks, heap, conferences, conf_copy,
                    all_deadlines, j, responses, lastCall, firstClock >>

\* Head of the loop over conferences, lines 68-72.
ForConf ==
    /\ pc = "for_conf"
    /\ i <= Len(conferences)
    /\ heap' = DictCopy(heap, conferences[i]).heap
    /\ conf_copy' = DictCopy(heap, conferences[i]).ref
    /\ all_deadlines' = <<>>
    /\ j' = 1
    /\ pc' = "for_deadline"
    /\ UNCHANGED << config, clock, ticks, conferences, enriched, today, i,
                    responses, lastCall, firstClock >>

\* The request ends: its response is recorded, the handler's locals die.
Finish(response) ==
    /\ responses' = Append(responses, response)
    /\ pc' = "idle"
    /\ heap' = <<>>
    /\ conferences' = <<>>
    /\ today' = None
    /\ i' = 0
    /\ conf_copy' = 0
    /\ all_deadlines' = <<>>
    /\ j' = 0

\* One deadline of conf, lines 73-80; a ValueError ends the request.
ForDeadline ==
    /\ pc = "for_deadline"
    /\ j <= Len(GetDeadlines(heap[conferences[i]]))
    /\ LET dl == GetDeadlines(heap[conferences[i]])[j]
           days == days_until(dl.date, clock)
       IN IF ~days.ok
          THEN /\ Finish(ErrorResponse)
               /\ UNCHANGED << enriched, lastCall >>
          ELSE /\ all_deadlines' =
                      AppendDeadline(all_deadlines, dl.type, dl.date, days.value)
               /\ j' = j + 1
               /\ lastCall' = IF IsNone(days.value) THEN lastCall
                              ELSE Some([date |-> Val(dl.date), at |-> clock,
                                         days |-> Val(days.value)])
               /\ UNCHANGED << pc, heap, conferences, enriched, today, i,
                               conf_copy, responses >>
    /\ UNCHANGED << config, clock, ticks, firstClock >>

\* Lines 82-89: sort the deadlines, set the derived keys on conf_copy,
\* append it.  A ValueError from the conference date ends the request.
FinishConf ==
    /\ pc = "for_deadline"
    /\ j > Len(GetDeadlines(heap[conferences[i]]))
    /\ LET sorted == SortDeadlines(all_deadlines)
           cdays == days_until(GetConferenceDate(heap[conferences[i]]), clock)
       IN IF ~cdays.ok
          THEN /\ Finish(ErrorResponse)
               /\ UNCHANGED << enriched, lastCall >>
          ELSE /\ heap' = [heap EXCEPT ![conf_copy] =
                              [@ EXCEPT !.keys = @ \cup {"all_deadlines",
                                            "next_deadline", "conference_days"},
                                        !.all_deadlines = sorted,
                                        !.next_deadline = FirstOrNone(sorted),
                                        !.conference_days = cdays.value]]
               /\ enriched' = Append(enriched, conf_copy)
               /\ i' = i + 1
               /\ pc' = "for_conf"
               /\ all_deadlines' = <<>>
               /\ j' = 0
               /\ conf_copy' = 0
               /\ lastCall' = IF IsNone(cdays.value) THEN lastCall
                              ELSE Some([date |-> Val(GetConferenceDate(
                                                     heap[conferences[i]])),
                                         at |-> clock,
                                         days |-> Val(cdays.value)])
               /\ UNCHANGED << conferences, today, responses >>
    /\ UNCHANGED << config, clock, ticks, firstClock >>

\* Lines 91-104: sort the records and return them.
SortAndReturn ==
    /\ pc = "for_conf"
    /\ i > Len(conferences)
    /\ enriched' = SortEnriched(heap, enriched)
    /\ pc' = "returned"
    /\ UNCHANGED << config, clock, ticks, heap, conferences, today, i, conf_copy,
                    all_deadlines, j, responses, lastCall, firstClock >>

\* get_conferences / home hand the returned list to the framework.
Respond ==
    /\ pc = "returned"
    /\ Finish(OkResponse(Deref(heap, enriched)))
    /\ UNCHANGED << config, clock, ticks, enriched, lastCall, firstClock >>

Next ==
    \/ Tick
    \/ Load
    \/ EnrichStart
    \/ ForConf
    \/ ForDeadline
    \/ FinishConf
    \/ SortAndReturn
    \/ Respond

Spec == Init /\ [][Next]_vars

\* ------------------------------------------------------------- properties
OkBodies == { responses[r].body : r \in { q \in DOMAIN responses :
                                            responses[q].status = "ok" } }

Upcoming(rec) == ~IsNone(rec.next_deadline) /\ Val(rec.next_deadline).days >= 0
Passed(rec) == ~IsNone(rec.next_deadline) /\ Val(rec.next_deadline).days < 0

\* The deadlines of a record that carry a date, in the mapping's order.
DatedDeadlines(rec) ==
    SelectSeq(GetDeadlines(rec), LAMBDA dl : ~Falsy(dl.date))

Midnight(s) == Ordinal(s.y, s.m, s.d) * TicksPerDay

\* C1: in every returned list, every record whose nearest deadline is
\* upcoming (days >= 0) stands before every record whose nearest deadline
\* has passed (days < 0).
C1_UpcomingBeforePassed ==
    \A body \in OkBodies :
        \A p, q \in DOMAIN body :
            (Upcoming(body[p]) /\ Passed(body[q])) => p < q

\* C2: a record none of whose deadlines has a date gets next_deadline = None
\* and stands behind every record that has a dated deadline.
C2_UndatedLast ==
    \A body \in OkBodies :
        \A p \in DOMAIN body :
            DatedDeadlines(body[p]) = <<>> =>
                /\ "next_deadline" \in body[p].keys
                /\ IsNone(body[p].next_deadline)
                /\ \A q \in DOMAIN body :
                       DatedDeadlines(body[q]) # <<>> => q < p

\* C2's case: an undated record that was first in the file is returned
\* behind a record whose only deadline has passed.
C2_Witness ==
    \E body \in OkBodies :
        /\ Len(body) = 2
        /\ body[2].name = 1
        /\ DatedDeadlines(body[2]) = <<>>
        /\ Passed(body[1])

\* C3: a record with exactly two dated deadlines, one passed and one still
\* to come, has the one still to come as its next_deadline.
C3_NextIsFuture ==
    \A body \in OkBodies :
        \A p \in DOMAIN body :
            LET ad == body[p].all_deadlines IN
            (Len(ad) = 2 /\ \E a, b \in 1..2 : ad[a].days < 0 /\ ad[b].days >= 0)
                => Val(body[p].next_deadline).days >= 0

\* C4 as stated: days_until of a day whose midnight is strictly later than
\* the current moment is strictly positive.
C4_FuturePositive ==
    ~IsNone(lastCall) =>
        (Midnight(Val(lastCall).date) > Val(lastCall).at => Val(lastCall).days > 0)

\* C4 as amended: days_until of a day whose midnight is strictly later than
\* the current moment is non-negative; it is positive exactly when midnight
\* is at least a whole day away, so a deadline dated tomorrow gives 1 at
\* midnight today and 0 at every later time of today.
C4_FutureNonNegative ==
    ~IsNone(lastCall) =>
        LET c == Val(lastCall)
            gap == Midnight(c.date) - c.at
        IN gap > 0 =>
              /\ c.days >= 0
              /\ (c.days > 0) <=> (gap >= TicksPerDay)
              /\ gap <= TicksPerDay => c.days = (IF gap = TicksPerDay THEN 1 ELSE 0)

\* C4's case: a deadline dated tomorrow, asked about after midnight today.
C4_Witness ==
    /\ ~IsNone(lastCall)
    /\ Val(lastCall).date = Tomorrow
    /\ Val(lastCall).at = StartDay * TicksPerDay + 1
    /\ Val(lastCall).days = 0

C6_StableTotal ==
    \A body \in OkBodies :
        \A p, q \in DOMAIN body :
            p < q =>
                /\ (Upcoming(body[p]) /\ Upcoming(body[q])) =>
                       Val(body[p].next_deadline).days <= Val(body[q].next_deadline).days
                /\ sort_key(body[p]) = sort_key(body[q]) =>
                       body[p].name < body[q].name

\* C6's case: two records with the same upcoming days value are returned.
C6_Witness ==
    \E body \in OkBodies :
        /\ Len(body) = 2
        /\ Upcoming(body[1])
        /\ Upcoming(body[2])
        /\ sort_key(body[1]) = sort_key(body[2])
        /\ body[1].name = 1

\* The date strings of the file that name no real day.
MalformedDates == { NoSuchDay, NoSuchMonth }

IsMalformed(date_str) == ~IsNone(date_str) /\ Val(date_str) \in MalformedDates

HasMalformed(entry) ==
    \/ IsMalformed(GetConferenceDate(entry))
    \/ \E k \in DOMAIN GetDeadlines(entry) : IsMalformed(GetDeadlines(entry)[k].date)

\* C7: when a deadline date or conference date of the file is malformed,
\* every request fails and returns no list, wherever the record stands.
C7_MalformedIsFatal ==
    (\E k \in DOMAIN config : HasMalformed(config[k])) =>
        \A r \in DOMAIN responses : responses[r] = ErrorResponse

\* C7's case: the second record is malformed, the first one is not and has
\* been enriched already when the request fails.
C7_Witness ==
    /\ Len(config) = 2
    /\ ~HasMalformed(config[1])
    /\ HasMalformed(config[2])
    /\ Len(enriched) = 1
    /\ responses # <<>>
    /\ responses[1] = ErrorResponse

\* C8: while enrich_conference_data runs and after it has returned, the
\* input list holds the same dicts in the same order and every one of them
\* is as it was loaded: no derived key, no field altered.
C8_InputUnchanged ==
    pc \in {"for_conf", "for_deadline", "returned"} =>
        /\ conferences = [k \in 1..Len(config) |-> k]
        /\ \A k \in 1..Len(config) : heap[k] = YamlObject(config, k)

\* C8's case: the call has returned two enriched copies in the opposite
\* order of the input.
C8_Witness ==
    /\ pc = "returned"
    /\ Len(enriched) = 2
    /\ heap[enriched[1]].name = 2
    /\ {"all_deadlines", "next_deadline", "conference_days"}
           \subseteq heap[enriched[1]].keys
    /\ heap[enriched[1]].all_deadlines # <<>>

\* C9: when the clock has not moved since the first request began, all the
\* requests served have returned the same output.
C9_SameOutput ==
    firstClock = Some(clock) =>
        \A a, b \in DOMAIN responses : responses[a] = responses[b]

\* C9's case: two requests have returned a list of two dated records while
\* the clock stood still.
C9_Witness ==
    /\ firstClock = Some(clock)
    /\ Len(responses) >= 2
    /\ responses[1].status = "ok"
    /\ Len(responses[1].body) = 2
    /\ \A p \in 1..2 : responses[1].body[p].all_deadlines # <<>>
    /\ responses[2] = responses[1]

\* The (date, days) pairs a returned list carries: every entry of every
\* all_deadlines, and the conference date with conference_days.
DaysValues(body) ==
    UNION { { << body[p].all_deadlines[e].date, body[p].all_deadlines[e].days >> :
                e \in DOMAIN body[p].all_deadlines }
            \cup (IF IsNone(body[p].conference_days) THEN {}
                  ELSE { << Val(body[p].conference_date),
                            Val(body[p].conference_days) >> }) :
            p \in DOMAIN body }

\* C10: within one returned list, two entries with the same date string
\* carry the same days value.
C10_SameDateSameDays ==
    \A body \in OkBodies :
        \A x, y \in DaysValues(body) : x[1] = y[1] => x[2] = y[2]

====
